---------------------------- MODULE Spec2Model ----------------------------
(***************************************************************************)
(* A model of pydantic_class_generator: the identifier normalizer, the     *)
(* Node tree, the recursive-descent parser with its dedup registry, the    *)
(* code emitter and the file / directory entry points.                     *)
(*                                                                         *)
(* Python strings are modelled as sequences of one-character strings, so   *)
(* that prefix tests, splitting and case conversion are computed and not   *)
(* assumed.  The empty sequence stands for '' and for None where the code  *)
(* only tests truthiness (original_name).                                  *)
(***************************************************************************)
EXTENDS Naturals, Sequences, FiniteSets, TLC

VARIABLES
    pc,              \* position of the modelled call: "ready", "parsed", "done"
    input,           \* the argument of the call (a file, a directory or (name, data))
    root,            \* the Node returned by parse / parse_file (NoNode: none),
                     \* the list of Nodes returned by parse_dir
    err,             \* the exception the call raised (NoErr: none)
    code,            \* the lines emitted by generate_all_classes
    existing_nodes,  \* the dedup registry of the parse that ran last
    first,           \* the (input, root, code) of an earlier call, for comparison
    out              \* the files written by the file / directory entry points

vars == <<pc, input, root, err, code, existing_nodes, first, out>>

-----------------------------------------------------------------------------
(* Characters.                                                             *)

LowerSeq == <<"a","b","c","d","e","f","g","h","i","j","k","l","m",
              "n","o","p","q","r","s","t","u","v","w","x","y","z">>
UpperSeq == <<"A","B","C","D","E","F","G","H","I","J","K","L","M",
              "N","O","P","Q","R","S","T","U","V","W","X","Y","Z">>
DigitSeq == <<"0","1","2","3","4","5","6","7","8","9">>

Range(s) == { s[i] : i \in DOMAIN s }

LowerSet == Range(LowerSeq)
UpperSet == Range(UpperSeq)
DigitSet == Range(DigitSeq)

\* str.isdigit / str.isalpha / cased tests of one character of the model's
\* alphabet (ASCII letters and digits, '_', ' ', '-', '.', '[', ']', ',' and
\* the umlauts, which _replace_invalid_characters removes before any test).
IsDigitC(c) == c \in DigitSet
IsUpperC(c) == c \in UpperSet \/ c \in {"Ä", "Ö", "Ü"}
IsLowerC(c) == c \in LowerSet \/ c \in {"ä", "ö", "ü", "ß"}
IsAlphaC(c) == IsUpperC(c) \/ IsLowerC(c)

IndexIn(seq, c) == CHOOSE i \in DOMAIN seq : seq[i] = c

ToUpperC(c) == IF c \in LowerSet THEN UpperSeq[IndexIn(LowerSeq, c)] ELSE c
ToLowerC(c) == IF c \in UpperSet THEN LowerSeq[IndexIn(UpperSeq, c)] ELSE c

\* Code point order of the characters that can occur in a field name or a
\* class name (the sort key of sorted(..., key=lambda n: n.name)).
CharOrder == <<" ", ",", "-", ".">> \o DigitSeq \o UpperSeq \o <<"[", "]", "_">> \o LowerSeq
Ord(c) == IndexIn(CharOrder, c)

-----------------------------------------------------------------------------
(* Strings: str methods used by the source.                                *)

RECURSIVE StrLess(_, _)
\* a < b for Python strings (lexicographic by code point)
StrLess(a, b) ==
    IF b = <<>> THEN FALSE
    ELSE IF a = <<>> THEN TRUE
    ELSE IF Head(a) = Head(b) THEN StrLess(Tail(a), Tail(b))
    ELSE Ord(Head(a)) < Ord(Head(b))

\* a.startswith(b)
StartsWith(a, b) == Len(b) <= Len(a) /\ SubSeq(a, 1, Len(b)) = b

\* a.endswith(b)
EndsWith(a, b) == Len(b) <= Len(a) /\ SubSeq(a, Len(a) - Len(b) + 1, Len(a)) = b

\* b in a (substring test)
Contains(a, b) == \E i \in 0..(Len(a) - Len(b)) : SubSeq(a, i + 1, i + Len(b)) = b

\* str.isupper(): at least one cased character and no lowercase one
IsUpper(s) == (\E i \in DOMAIN s : IsUpperC(s[i])) /\ (\A i \in DOMAIN s : ~IsLowerC(s[i]))

Lower(s) == [i \in DOMAIN s |-> ToLowerC(s[i])]
\* word[0].upper() + word[1:]   (word is not empty)
UpperFirst(s) == [i \in DOMAIN s |-> IF i = 1 THEN ToUpperC(s[i]) ELSE s[i]]
\* str.capitalize()
Capitalize(s) == [i \in DOMAIN s |-> IF i = 1 THEN ToUpperC(s[i]) ELSE ToLowerC(s[i])]

\* str.isidentifier() on the model's alphabet
IsIdentifier(s) ==
    /\ s # <<>>
    /\ (IsAlphaC(s[1]) \/ s[1] = "_")
    /\ \A i \in DOMAIN s : IsAlphaC(s[i]) \/ IsDigitC(s[i]) \/ s[i] = "_"

RECURSIVE SplitFrom(_, _, _, _)
SplitFrom(s, sep, cur, acc) ==
    IF s = <<>> THEN Append(acc, cur)
    ELSE IF Head(s) = sep THEN SplitFrom(Tail(s), sep, <<>>, Append(acc, cur))
    ELSE SplitFrom(Tail(s), sep, Append(cur, Head(s)), acc)

\* s.split(sep): every separator splits, empty words are kept
Split(s, sep) == SplitFrom(s, sep, <<>>, <<>>)

RECURSIVE Join(_, _)
\* sep.join(words)
Join(words, sep) ==
    IF words = <<>> THEN <<>>
    ELSE IF Len(words) = 1 THEN words[1]
    ELSE words[1] \o sep \o Join(Tail(words), sep)

RECURSIVE Flatten(_)
\* ''.join(words)
Flatten(words) == IF words = <<>> THEN <<>> ELSE Head(words) \o Flatten(Tail(words))

RECURSIVE DecimalFrom(_)
DecimalFrom(n) == IF n < 10 THEN <<DigitSeq[n + 1]>>
                  ELSE Append(DecimalFrom(n \div 10), DigitSeq[(n % 10) + 1])
\* str(n) for n >= 0
Decimal(n) == DecimalFrom(n)

-----------------------------------------------------------------------------
(* Identifier normalizer.                                                  *)

ReplaceChar(c, default_character) ==
    IF ToLowerC(c) = "ä" \/ c = "Ä" THEN <<"a", "e">>
    ELSE IF ToLowerC(c) = "ö" \/ c = "Ö" THEN <<"o", "e">>
    ELSE IF ToLowerC(c) = "ü" \/ c = "Ü" THEN <<"u", "e">>
    ELSE IF c = "ß" THEN <<"s", "s">>
    ELSE IF c = "_" \/ IsDigitC(c) \/ IsAlphaC(c) THEN <<c>>
    ELSE default_character

RECURSIVE replace_invalid_characters(_, _)
replace_invalid_characters(name, default_character) ==
    IF name = <<>> THEN <<>>
    ELSE ReplaceChar(Head(name), default_character)
         \o replace_invalid_characters(Tail(name), default_character)

NonEmptyWords(words) == SelectSeq(words, LAMBDA w : w # <<>>)

ClassWord(word) == IF IsUpper(word) THEN Capitalize(word) ELSE UpperFirst(word)

ClassWords(words) == [i \in DOMAIN words |-> ClassWord(words[i])]

UpperFirsts(words) == [i \in DOMAIN words |-> UpperFirst(words[i])]

\* lines 166-183, one local operator for each reassignment of name
get_valid_class_name(name) ==
    LET Snake(replaced) ==
            IF "_" \in Range(replaced)
            THEN Join(ClassWords(NonEmptyWords(Split(replaced, "_"))), <<" ">>)
            ELSE replaced
        Cased(snake) == IF IsUpper(snake) THEN Capitalize(snake) ELSE snake
        Prefixed(cased) ==
            IF cased = <<>> \/ IsDigitC(cased[1])
            THEN <<"M","o","d","e","l"," ">> \o cased
            ELSE cased
    IN  Flatten(UpperFirsts(NonEmptyWords(Split(
            Prefixed(Cased(Snake(replace_invalid_characters(name, <<" ">>)))), " "))))

FieldWord(word) == IF IsUpper(word) THEN Lower(word) ELSE word

FieldWords(words) == [i \in DOMAIN words |-> FieldWord(words[i])]

RECURSIVE CamelFrom(_, _)
\* re.sub(r'(?<!^)(?=[A-Z])', '_', s): an underscore before every capital
\* that is not the first character
CamelFrom(s, i) ==
    IF i > Len(s) THEN <<>>
    ELSE (IF i > 1 /\ s[i] \in UpperSet THEN <<"_", s[i]>> ELSE <<s[i]>>) \o CamelFrom(s, i + 1)

FieldNameBody(name) ==
    CamelFrom(Join(FieldWords(NonEmptyWords(Split(
        replace_invalid_characters(name, <<"_">>), "_"))), <<"_">>), 1)

\* field_name[0] of an empty string: IndexError
FieldNameRaises(name) == FieldNameBody(name) = <<>>

get_valid_field_name(name) ==
    LET Prefixed(body) == IF IsDigitC(body[1]) THEN <<"f","i","e","l","d","_">> \o body ELSE body
    IN  Lower(Prefixed(FieldNameBody(name)))

-----------------------------------------------------------------------------
(* Literals of the source.                                                 *)

STR_list     == <<"l","i","s","t">>
STR_item     == <<"_","i","t","e","m">>
STR_ListItem == <<"L","i","s","t","I","t","e","m">>
STR_Any      == <<"A","n","y">>
STR_NoneType == <<"N","o","n","e","T","y","p","e">>
STR_int      == <<"i","n","t">>
STR_float    == <<"f","l","o","a","t">>
STR_str      == <<"s","t","r">>
STR_bool     == <<"b","o","o","l">>
STR_tuple    == <<"t","u","p","l","e">>
STR_DEFAULT  == <<"D","E","F","A","U","L","T">>

\* node_parser.py line 370: the names never registered
BasicTypes == {STR_int, STR_float, STR_str, STR_bool, STR_list, STR_tuple, STR_Any}

None  == <<>>
NoErr == "none"

-----------------------------------------------------------------------------
(* Node and ListNode.                                                      *)

\* Node(name, class_type, children, original_name); default stays None in
\* every node the parsers build and is left out.  is_list marks a ListNode,
\* whose stored class_type ('list') is never read back.  inferred is a
\* history field: the class_type the node was constructed with, which
\* _check_and_adjust_class_type reads as field_type (line 345) and then
\* overwrites; no operation of the model reads it.
Node(name, class_type, children, original_name) ==
    [ name             |-> name,
      class_type       |-> class_type,
      children         |-> children,
      original_name    |-> original_name,
      is_duplicate     |-> FALSE,
      needs_adjustment |-> FALSE,
      is_list          |-> FALSE,
      inferred         |-> class_type ]

ListNode(name, children, original_name) ==
    [ Node(name, STR_list, children, original_name) EXCEPT !.is_list = TRUE ]

RECURSIVE DistinctInOrder(_, _)
\* list({t: None for t in types}): first occurrences, in order
DistinctInOrder(types, acc) ==
    IF types = <<>> THEN acc
    ELSE DistinctInOrder(Tail(types),
                         IF Head(types) \in Range(acc) THEN acc ELSE Append(acc, Head(types)))

RECURSIVE ClassType(_)
\* node.class_type: the stored field of a Node, the property of a ListNode
ClassType(node) ==
    IF ~node.is_list THEN node.class_type
    ELSE IF node.children = <<>> THEN STR_list
    ELSE LET types == DistinctInOrder([i \in DOMAIN node.children |-> ClassType(node.children[i])], <<>>)
         IN  IF Len(types) = 1
             THEN STR_list \o <<"[">> \o ClassType(node.children[1]) \o <<"]">>
             ELSE STR_list \o <<"[">> \o <<"U","n","i","o","n","[">>
                  \o Join(types, <<",", " ">>) \o <<"]", "]">>

\* Node.__post_init__: the ValueError of an invalid name or class name
PostInitRaises(node) ==
    LET Invalid(class_type) == ~Contains(class_type, STR_list) /\ ~IsIdentifier(class_type)
    IN  ~IsIdentifier(node.name) \/ Invalid(ClassType(node))

RECURSIVE InsertByName(_, _)
\* insertion into a list sorted by name, after the entries of the same name
InsertByName(sorted, node) ==
    IF sorted = <<>> THEN <<node>>
    ELSE IF StrLess(node.name, Head(sorted).name) THEN <<node>> \o sorted
    ELSE <<Head(sorted)>> \o InsertByName(Tail(sorted), node)

RECURSIVE SortFrom(_, _, _)
SortFrom(nodes, i, acc) ==
    IF i > Len(nodes) THEN acc ELSE SortFrom(nodes, i + 1, InsertByName(acc, nodes[i]))

\* sorted(children, key=lambda n: n.name): stable
SortedByName(nodes) == SortFrom(nodes, 1, <<>>)

\* the children in the order they were inserted
InsertionOrder(nodes) == nodes

\* the children in the order __eq__ compares them
EqOrder(nodes) == SortedByName(nodes)

\* the class_type test of __eq__ (node.py line 62)
TypesMatch(a, b) == StartsWith(b, a) \/ StartsWith(a, b)

RECURSIVE NodeEq(_, _)
\* Node.__eq__(self, other), other a Node
NodeEq(self, other) ==
    IF \/ ~TypesMatch(ClassType(self), ClassType(other))
       \/ self.name # other.name
       \/ Len(self.children) # Len(other.children)
    THEN FALSE
    ELSE LET sorted_children == EqOrder(self.children)
             sorted_other    == EqOrder(other.children)
         IN  \A i \in DOMAIN sorted_children : NodeEq(sorted_children[i], sorted_other[i])

-----------------------------------------------------------------------------
(* Generic values: what the format adapters hand to the parser.            *)
(*   [k |-> "scalar", t |-> type(value).__name__, items |-> <<>>]          *)
(*   [k |-> "text",   t |-> the raw text of an INI option, items |-> <<>>] *)
(*   [k |-> "dict",   t |-> <<>>, items |-> <<[key, val], ...>>]           *)
(*   [k |-> "list",   t |-> <<>>, items |-> <<value, ...>>]                *)

Scalar(t)   == [k |-> "scalar", t |-> t,    items |-> <<>>]
Text(s)     == [k |-> "text",   t |-> s,    items |-> <<>>]
Dict(items) == [k |-> "dict",   t |-> <<>>, items |-> items]
List(items) == [k |-> "list",   t |-> <<>>, items |-> items]
KV(key, val) == [key |-> key, val |-> val]

-----------------------------------------------------------------------------
(* The dedup registry: existing_nodes, class name -> list of nodes.        *)

EmptyRegistry == << >>

\* the registry of the parse before, taken over as it was left
LeftBehind(left_behind) == left_behind

\* the registry a top-level parse starts from (node_parser.py lines 226, 394):
\* a new dict, whatever an earlier parse left behind
FreshRegistry(left_behind) == EmptyRegistry

RegPut(reg, key, nodes) ==
    [t \in DOMAIN reg \cup {key} |-> IF t = key THEN nodes ELSE reg[t]]

\* the first entry of entries that equals node, 0 if there is none
FirstEqual(node, entries) ==
    LET Least(hits) == IF hits = {} THEN 0 ELSE CHOOSE i \in hits : \A j \in hits : i <= j
    IN  Least({ i \in DOMAIN entries : NodeEq(node, entries[i]) })

\* the class name a colliding node gets (lines 357-366)
AdjustedNode(node, entries, parent_type) ==
    LET Renamed(class_type) ==
            IF \E i \in DOMAIN entries : class_type = ClassType(entries[i])
            THEN [node EXCEPT !.class_type = class_type \o Decimal(Len(entries)),
                              !.needs_adjustment = TRUE]
            ELSE [node EXCEPT !.class_type = class_type]
    IN  Renamed(get_valid_class_name(parent_type \o node.class_type))

\* NodeParser._check_and_adjust_class_type: the node and the registry after
\* the call.  Only plain Nodes are passed in.
check_and_adjust_class_type(node, reg, parent_type) ==
    LET field_type == node.class_type
        \* lines 357-368: no entry equals the node
        Collision(entries, adjusted) ==
            [ node |-> adjusted,
              reg  |-> RegPut(reg, field_type, Append(entries, adjusted)) ]
        \* lines 348-368: the class name is registered
        Registered(entries, hit) ==
            IF hit # 0
            THEN [ node |-> [node EXCEPT !.class_type = ClassType(entries[hit]),
                                         !.is_duplicate = TRUE],
                   reg  |-> reg ]
            ELSE Collision(entries, AdjustedNode(node, entries, parent_type))
    IN  IF field_type \in DOMAIN reg
        THEN Registered(reg[field_type], FirstEqual(node, reg[field_type]))
        ELSE IF field_type \notin BasicTypes
        THEN [ node |-> node, reg |-> RegPut(reg, field_type, <<node>>) ]
        ELSE [ node |-> node, reg |-> reg ]

-----------------------------------------------------------------------------
(* Recursive descent.  A result is [err, nodes, reg]: the exception raised  *)
(* (NoErr: none), the children built and the registry after the call.      *)

Raise(e) == [err |-> e, nodes |-> <<>>, reg |-> EmptyRegistry]
Done(nodes, reg) == [err |-> NoErr, nodes |-> nodes, reg |-> reg]

OriginalName(field, field_name) == IF field # field_name THEN field ELSE None

\* type(value).__name__, with NoneType turned into Any (lines 268-270, 323-325)
ScalarType(value) == IF value.t = STR_NoneType THEN STR_Any ELSE value.t

RECURSIVE DictLoop(_, _, _, _, _)
RECURSIVE ListLoop(_, _, _, _, _, _)

\* NodeParser._get_children_from_dict(data, existing_nodes, parent_type),
\* data a mapping
get_children_from_dict(data, reg, parent_type) ==
    DictLoop(data.items, 1, <<>>, reg, parent_type)

\* NodeParser._get_children_from_list(data, existing_nodes, field_name, parent_type)
get_children_from_list(data, reg, field_name, parent_type) ==
    ListLoop(data.items, 1, <<>>, reg, field_name, parent_type)

\* the loop at line 245: the iteration for items[i], then the rest
DictLoop(items, i, children, reg, parent_type) ==
    LET field == items[i].key
        value == items[i].val
        Rest(checked) ==
            DictLoop(items, i + 1, Append(children, checked.node), checked.reg, parent_type)
        \* lines 256-259: a ListNode is appended as it is
        FromList(babies, field_name) ==
            IF babies.err # NoErr THEN babies
            ELSE IF PostInitRaises(ListNode(field_name, babies.nodes, OriginalName(field, field_name)))
            THEN Raise("ValueError")
            ELSE Rest([node |-> ListNode(field_name, babies.nodes, OriginalName(field, field_name)),
                       reg  |-> babies.reg])
        \* lines 260-267: a nested mapping
        FromDict(babies, field_name, field_type) ==
            IF babies.err # NoErr THEN babies
            ELSE IF PostInitRaises(Node(field_name, field_type, babies.nodes,
                                        OriginalName(field, field_name)))
            THEN Raise("ValueError")
            ELSE Rest(check_and_adjust_class_type(
                         Node(field_name, field_type, babies.nodes, OriginalName(field, field_name)),
                         babies.reg, parent_type))
        \* lines 268-282: a scalar
        FromScalar(field_name) ==
            IF PostInitRaises(Node(field_name, ScalarType(value), <<>>,
                                   OriginalName(field, field_name)))
            THEN Raise("ValueError")
            ELSE Rest(check_and_adjust_class_type(
                         Node(field_name, ScalarType(value), <<>>, OriginalName(field, field_name)),
                         reg, parent_type))
        Nested(field_name, field_type) ==
            FromDict(get_children_from_dict(value, reg, field_type), field_name, field_type)
        Field(field_name) ==
            IF value.k = "list"
            THEN FromList(get_children_from_list(value, reg, field_name, parent_type), field_name)
            ELSE IF value.k = "dict"
            THEN Nested(field_name, get_valid_class_name(field))
            ELSE FromScalar(field_name)
    IN  IF i > Len(items) THEN Done(children, reg)
        ELSE IF FieldNameRaises(field) THEN Raise("IndexError")
        ELSE Field(get_valid_field_name(field))

\* the loop at line 299: the iteration for items[i], then the rest
ListLoop(items, i, children, reg, field_name, parent_type) ==
    LET element == items[i]
        Rest(child, reg_after) ==
            ListLoop(items, i + 1, Append(children, child), reg_after, field_name, parent_type)
        Checked(checked) == Rest(checked.node, checked.reg)
        \* lines 303-308: a nested array
        FromList(babies, element_name) ==
            IF babies.err # NoErr THEN babies
            ELSE IF PostInitRaises(ListNode(element_name, babies.nodes, None))
            THEN Raise("ValueError")
            ELSE Rest(ListNode(element_name, babies.nodes, None), babies.reg)
        \* lines 309-322: a mapping; line 296: field_type = 'list' is what
        \* line 313 passes as parent_type
        FromDict(babies, element_name, element_type) ==
            IF babies.err # NoErr THEN babies
            ELSE IF PostInitRaises(Node(element_name, element_type, babies.nodes, None))
            THEN Raise("ValueError")
            ELSE Checked(check_and_adjust_class_type(
                            Node(element_name, element_type, babies.nodes, None),
                            babies.reg, <<>>))
        \* lines 323-332: a scalar, which is not checked against the registry
        FromScalar(element_name) ==
            IF PostInitRaises(Node(element_name, ScalarType(element), <<>>, None))
            THEN Raise("ValueError")
            ELSE Rest(Node(element_name, ScalarType(element), <<>>, None), reg)
        Element(element_name) ==
            IF element.k = "list"
            THEN FromList(get_children_from_list(element, reg, field_name, parent_type),
                          element_name)
            ELSE IF element.k = "dict"
            THEN FromDict(get_children_from_dict(element, reg, STR_list), element_name,
                          get_valid_class_name(field_name \o STR_ListItem))
            ELSE FromScalar(element_name)
    IN  IF i > Len(items) THEN Done(children, reg)
        ELSE Element(get_valid_field_name(field_name \o STR_item))

\* A parse result is [err, root, reg].
NoNode == [ Node(<<>>, <<>>, <<>>, None) EXCEPT !.class_type = <<"-">> ]
Failed(e) == [err |-> e, root |-> NoNode, reg |-> EmptyRegistry]

\* NodeParser.parse(name, data), the parse of JSONParser and YAMLParser.
\* data.items() of a value that is no mapping raises AttributeError.
parse(name, data, left_behind) ==
    LET Root(node, reg) ==
            IF PostInitRaises(node) THEN Failed("ValueError")
            ELSE [err |-> NoErr, root |-> node, reg |-> reg]
        Children(children, root_name, root_type) ==
            IF children.err # NoErr THEN Failed(children.err)
            ELSE Root(Node(root_name, root_type, children.nodes, OriginalName(name, root_name)),
                      children.reg)
        Named(root_name, root_type) ==
            IF data.k # "dict" THEN Failed("AttributeError")
            ELSE Children(get_children_from_dict(data, FreshRegistry(left_behind), root_type),
                          root_name, root_type)
    IN  IF FieldNameRaises(name) THEN Failed("IndexError")
        ELSE Named(get_valid_field_name(name), get_valid_class_name(name))

-----------------------------------------------------------------------------
(* INIParser.                                                              *)

\* str.isdigit(): not empty, digits only
IsDigits(s) == s # <<>> /\ \A i \in DOMAIN s : IsDigitC(s[i])

RECURSIVE RemoveFirst(_, _)
\* s.replace(c, "", 1)
RemoveFirst(s, c) ==
    IF s = <<>> THEN <<>>
    ELSE IF Head(s) = c THEN Tail(s)
    ELSE <<Head(s)>> \o RemoveFirst(Tail(s), c)

\* the type inferred from the text of an option (lines 406-414)
IniFieldType(value) ==
    IF Lower(value) \in { <<"t","r","u","e">>, <<"f","a","l","s","e">> } THEN STR_bool
    ELSE IF IsDigits(value) THEN STR_int
    ELSE IF IsDigits(RemoveFirst([i \in DOMAIN value |-> IF value[i] = "," THEN "." ELSE value[i]], "."))
    THEN STR_float
    ELSE STR_str

RECURSIVE OptionLoop(_, _, _)
\* the loop at line 404: the fields of one section
OptionLoop(items, i, babies) ==
    LET field == items[i].key
        value == items[i].val
        Baby(baby) ==
            IF PostInitRaises(baby) THEN Raise("ValueError")
            ELSE OptionLoop(items, i + 1, Append(babies, baby))
        Field(field_name) ==
            Baby(Node(field_name, IniFieldType(value.t), <<>>, OriginalName(field, field_name)))
    IN  IF i > Len(items) THEN Done(babies, EmptyRegistry)
        ELSE IF FieldNameRaises(field) THEN Raise("IndexError")
        ELSE Field(get_valid_field_name(field))

RECURSIVE SectionLoop(_, _, _, _)
\* the loop at line 395: the sections of the file
SectionLoop(items, i, children, reg) ==
    LET section    == items[i].key
        value_dict == items[i].val
        Rest(checked) == SectionLoop(items, i + 1, Append(children, checked.node), checked.reg)
        Child(child) ==
            IF PostInitRaises(child) THEN Raise("ValueError")
            ELSE Rest(check_and_adjust_class_type(child, reg, <<>>))
        Babies(babies, section_name) ==
            IF babies.err # NoErr THEN babies
            ELSE Child(Node(section_name, get_valid_class_name(section), babies.nodes,
                            OriginalName(section, section_name)))
    IN  IF i > Len(items) THEN Done(children, reg)
        ELSE IF section = STR_DEFAULT THEN SectionLoop(items, i + 1, children, reg)
        ELSE IF FieldNameRaises(section) THEN Raise("IndexError")
        ELSE Babies(OptionLoop(value_dict.items, 1, <<>>), get_valid_field_name(section))

\* INIParser.parse(name, data), data the sections of a ConfigParser
parse_ini(name, data, left_behind) ==
    LET Root(node, reg) ==
            IF PostInitRaises(node) THEN Failed("ValueError")
            ELSE [err |-> NoErr, root |-> node, reg |-> reg]
        Named(sections, root_name) ==
            Root(Node(root_name, get_valid_class_name(name), sections.nodes,
                      OriginalName(name, root_name)),
                 sections.reg)
        Sections(sections) ==
            IF sections.err # NoErr THEN Failed(sections.err)
            ELSE IF FieldNameRaises(name) THEN Failed("IndexError")
            ELSE Named(sections, get_valid_field_name(name))
    IN  Sections(SectionLoop(data.items, 1, <<>>, FreshRegistry(left_behind)))

-----------------------------------------------------------------------------
(* Code emitter.  A line of emitted text is [kind, a, b, c]:               *)
(*   "todo_class"  # TODO please adjust the class name                     *)
(*   "class"       class <a>(BaseModel):                                   *)
(*   "doc"         the three docstring lines, Pydantic class for <a>       *)
(*   "todo_type"   # TODO please specify the type                          *)
(*   "field"       <a>: <b>, with = Field(alias=<c>, ...) when c is set    *)
(*   "blank"       an empty line                                           *)
(*   "header", "import_typing", "import_pydantic", "import_loader",        *)
(*   "load", "load_from_file": the fixed parts of generate_all_classes     *)

Line(kind, a, b, c) == [kind |-> kind, a |-> a, b |-> b, c |-> c]
Blank == Line("blank", <<>>, <<>>, <<>>)

\* Node._field_args: default is None, so the alias is all there can be
FieldArgs(node) == node.original_name

RECURSIVE FieldLines(_, _)
\* the loop at node.py line 92
FieldLines(children, i) ==
    IF i > Len(children) THEN <<>>
    ELSE LET child == children[i]
             Typed(class_type) ==
                 (IF class_type = STR_Any THEN <<Line("todo_type", <<>>, <<>>, <<>>)>> ELSE <<>>)
                 \o <<Line("field", child.name, class_type, FieldArgs(child))>>
                 \o (IF FieldArgs(child) # <<>> THEN <<Blank>> ELSE <<>>)
         IN  Typed(ClassType(child)) \o FieldLines(children, i + 1)

\* the guard of Node.generate_code (node.py line 81): no class for a node
\* without children
DeclaresClass(node) == node.children # <<>>

\* Node.generate_code / ListNode.generate_code
generate_code(node) ==
    IF node.is_list \/ ~DeclaresClass(node) THEN <<>>
    ELSE LET \* line 103: the trailing empty line of an alias field is dropped
             Stripped(source_code) ==
                 IF source_code[Len(source_code)] = Blank
                 THEN SubSeq(source_code, 1, Len(source_code) - 1)
                 ELSE source_code
         IN  Stripped(
                 (IF node.needs_adjustment THEN <<Line("todo_class", <<>>, <<>>, <<>>)>> ELSE <<>>)
                 \o << Line("class", node.class_type, <<>>, <<>>),
                       Line("doc", IF node.original_name # <<>> THEN node.original_name
                                   ELSE node.class_type, <<>>, <<>>) >>
                 \o FieldLines(node.children, 1))

\* A position in a tree: the child indices from the root down.
RECURSIVE NodeAt(_, _)
NodeAt(node, path) ==
    IF path = <<>> THEN node ELSE NodeAt(node.children[Head(path)], Tail(path))

RECURSIVE Visited(_, _)
RECURSIVE VisitedChildren(_, _, _)

\* the descendants first, the node after them
PostOrder(node, path) ==
    IF node.children = <<>> THEN <<>>
    ELSE VisitedChildren(node, path, 1) \o <<path>>

\* the loop at class_code_generator.py line 90: duplicates are skipped
VisitedChildren(node, path, i) ==
    IF i > Len(node.children) THEN <<>>
    ELSE (IF ~node.children[i].is_duplicate
          THEN Visited(node.children[i], Append(path, i)) ELSE <<>>)
         \o VisitedChildren(node, path, i + 1)

\* the positions generate_pydantic_classes emits code for, in the order of
\* its recursion: a call returns at once on a node without children (line 80)
Visited(node, path) ==
    IF node.children = <<>> THEN <<>>
    ELSE <<path>> \o VisitedChildren(node, path, 1)

RECURSIVE CodeOf(_, _, _)
\* lines 84-88 for each visited node: its code and two empty lines
CodeOf(node, paths, i) ==
    IF i > Len(paths) THEN <<>>
    ELSE LET Spaced(node_code) ==
                 IF node_code # <<>> THEN node_code \o <<Blank, Blank>> ELSE <<>>
         IN  Spaced(generate_code(NodeAt(node, paths[i]))) \o CodeOf(node, paths, i + 1)

generate_pydantic_classes(node) == CodeOf(node, Visited(node, <<>>), 1)

RECURSIVE any_untyped_fields(_)
any_untyped_fields(node) ==
    \/ ClassType(node) = STR_Any
    \/ \E i \in DOMAIN node.children : any_untyped_fields(node.children[i])

RECURSIVE any_aliases(_)
any_aliases(node) ==
    \/ node.original_name # <<>>
    \/ \E i \in DOMAIN node.children : any_aliases(node.children[i])

generate_all_classes(node) ==
    << Line("header", node.class_type, <<>>, <<>>),
       Line("import_typing", <<>>, <<>>, IF any_untyped_fields(node) THEN STR_Any ELSE <<>>),
       Line("import_pydantic", <<>>, <<>>,
            IF any_aliases(node) THEN <<"F","i","e","l","d">> ELSE <<>>),
       Line("import_loader", <<>>, <<>>, <<>>) >>
    \o generate_pydantic_classes(node)
    \o << Line("load", node.name, node.class_type, <<>>),
          Line("load_from_file", node.name, node.class_type, <<>>) >>

-----------------------------------------------------------------------------
(* Bounded inputs.                                                         *)

MaxFields == 2    \* fields of a leaf object
MaxItems  == 2    \* elements of an array
MaxRoot   == 2    \* entries of the root mapping
MaxSame   == 3    \* objects that are inferred to one class name

SeqsUpTo(S, n) == UNION { [1..m -> S] : m \in 0..n }

IsInjective(s) == \A i, j \in DOMAIN s : i # j => s[i] # s[j]

\* the mappings with at most n entries, keys from K (pairwise different, in
\* any order), values from V
Mappings(K, V, n) ==
    { Dict([i \in DOMAIN ks |-> KV(ks[i], vs[i])]) :
        <<ks, vs>> \in { p \in SeqsUpTo(K, n) \X SeqsUpTo(V, n) :
                            Len(p[1]) = Len(p[2]) /\ IsInjective(p[1]) } }

FieldKeys  == { <<"x">>, <<"y">> }
RootKeys   == { <<"a">>, <<"A">>, <<"b">> }
BranchKeys == { <<"a">>, <<"b">>, <<"d">> }
InnerKey   == <<"c">>
ListKey    == <<"l">>

Scalars == { Scalar(STR_int), Scalar(STR_str) }

\* leaf objects: mappings of scalars
Objs == Mappings(FieldKeys, Scalars, MaxFields)

\* objects with one array field
ArrayObjs == { Dict(<<KV(ListKey, List(s))>>) : s \in SeqsUpTo({Scalar(STR_int)}, MaxItems) }

\* the root mapping holds scalars and leaf objects under colliding and
\* non-colliding keys
SiblingDocs == Mappings(RootKeys, Objs \cup Scalars, MaxRoot)

\* the root mapping holds one array of scalars, objects and arrays
Items    == Objs \cup Scalars \cup ArrayObjs \cup { List(<<>>), List(<<Scalar(STR_str)>>) }
ListDocs == { Dict(<<KV(ListKey, List(s))>>) : s \in SeqsUpTo(Items, MaxItems) }

\* the same key in several branches of the document
BranchDocs == Mappings(BranchKeys, { Dict(<<KV(InnerKey, o)>>) : o \in Objs }, MaxRoot)

\* INI files: sections of options
SectionKeys == { <<"a">>, <<"A">>, STR_DEFAULT }
Texts       == { Text(<<"1">>), Text(<<"o","n">>) }
IniDocs     == Mappings(SectionKeys, Mappings(FieldKeys, Texts, MaxFields), MaxRoot)

\* three keys of one mapping that normalize to one field name and one class
\* name, and the items of one array: up to MaxSame objects under one name,
\* with the same fields in both orders
SameKeys == { <<"a">>, <<"A">>, <<"_", "a">> }
PairObjs == { Dict(<<>>),
              Dict(<<KV(<<"x">>, Scalar(STR_int))>>),
              Dict(<<KV(<<"x">>, Scalar(STR_int)), KV(<<"y">>, Scalar(STR_str))>>),
              Dict(<<KV(<<"y">>, Scalar(STR_str)), KV(<<"x">>, Scalar(STR_int))>>) }
SameDocs  == Mappings(SameKeys, PairObjs, MaxSame)
SameLists == { Dict(<<KV(ListKey, List(s))>>) : s \in SeqsUpTo(PairObjs, MaxSame) }

\* a key that gives the class name of the root, and a key whose class name
\* is the parent-prefixed name of another one
ClashDocs ==
    { Dict(<<KV(<<"r">>, o)>>) : o \in PairObjs }
    \cup { Dict(<<KV(<<"a">>, o[1]),
                  KV(<<"b">>, Dict(<<KV(<<"a">>, o[2]), KV(<<"b", "a">>, o[3])>>))>>) :
             o \in PairObjs \X PairObjs \X PairObjs }

RootName == <<"r">>

Call(fmt, name, data) == [fmt |-> fmt, name |-> name, data |-> data]

Inputs ==
    { Call("json", RootName, d) :
        d \in SiblingDocs \cup ListDocs \cup BranchDocs \cup SameDocs \cup SameLists
                \cup ClashDocs }
    \cup { Call("ini", RootName, d) : d \in IniDocs }

-----------------------------------------------------------------------------
(* The pipeline on one in-memory document: parse, then emit.               *)

Exc(type, cause, path) == [type |-> type, cause |-> cause, path |-> path]
NoExc  == Exc(NoErr, NoErr, <<>>)
NoCall == [input |-> Call("none", <<>>, Scalar(<<>>)), root |-> NoNode, err |-> NoExc,
           code |-> <<>>, calls |-> 0, others |-> 0]
NoOut  == <<>>

Init ==
    /\ pc = "ready"
    /\ input \in Inputs
    /\ root = NoNode
    /\ err = NoExc
    /\ code = <<>>
    /\ existing_nodes = EmptyRegistry
    /\ first = NoCall
    /\ out = NoOut

\* the state after a parse that returned or raised
Parsed(result) ==
    /\ root' = result.root
    /\ err' = Exc(result.err, NoErr, <<>>)
    /\ existing_nodes' = result.reg
    /\ pc' = IF result.err = NoErr THEN "parsed" ELSE "failed"

\* JSONParser().parse(name, data) / YAMLParser().parse(name, data)
Parse ==
    /\ pc = "ready"
    /\ input.fmt = "json"
    /\ Parsed(parse(input.name, input.data, existing_nodes))
    /\ UNCHANGED <<input, code, first, out>>

\* INIParser().parse(name, data)
ParseIni ==
    /\ pc = "ready"
    /\ input.fmt = "ini"
    /\ Parsed(parse_ini(input.name, input.data, existing_nodes))
    /\ UNCHANGED <<input, code, first, out>>

\* generate_all_classes(root)
GenerateAllClasses ==
    /\ pc = "parsed"
    /\ code' = generate_all_classes(root)
    /\ pc' = "generated"
    /\ UNCHANGED <<input, root, err, existing_nodes, first, out>>

Next == Parse \/ ParseIni \/ GenerateAllClasses

Spec == Init /\ [][Next]_vars

-----------------------------------------------------------------------------
(* Properties of the pipeline on one document (Spec).                      *)

RECURSIVE Positions(_, _)
\* the positions of the nodes of a tree, path being the position of node
Positions(node, path) ==
    {path} \cup UNION { Positions(node.children[i], Append(path, i)) :
                          i \in DOMAIN node.children }

\* parse returned a tree
Returned == pc \in {"parsed", "generated"}

\* the node was built from a mapping: a Node whose class name was inferred
\* from a key, not from the type of a scalar
IsObject(node) == ~node.is_list /\ node.inferred \notin BasicTypes

IsScalar(node) == ~node.is_list /\ node.children = <<>> /\ node.inferred \in BasicTypes

\* the field-name/type set of an object
FieldSet(node) ==
    { <<node.children[i].name, ClassType(node.children[i])>> : i \in DOMAIN node.children }

ScalarFields(node) == \A i \in DOMAIN node.children : IsScalar(node.children[i])

DistinctNames(node) ==
    \A i, j \in DOMAIN node.children :
        i # j => node.children[i].name # node.children[j].name

\* the emitted text holds a class declaration that was written for the node
\* at this position of the tree
Declared(path) ==
    /\ path \in Range(Visited(root, <<>>))
    /\ generate_code(NodeAt(root, path)) # <<>>

\* no node on the way from the root to this position is skipped as a duplicate
Reached(path) ==
    \A k \in 1..Len(path) : ~NodeAt(root, SubSeq(path, 1, k)).is_duplicate

DeclaredOf(paths) == Cardinality({ p \in paths : Declared(p) })

\* children i < j of the node at path
SiblingPairs ==
    UNION { UNION { { <<p, i, j>> : i \in 1..(j - 1) } :
                      j \in DOMAIN NodeAt(root, p).children } :
              p \in Positions(root, <<>>) }

SameNamedPair(parent, i, j) ==
    LET a == parent.children[i]
        b == parent.children[j]
    IN  /\ IsObject(a) /\ IsObject(b)
        /\ a.name = b.name
        /\ a.inferred = b.inferred
        /\ ScalarFields(a) /\ ScalarFields(b)
        /\ DistinctNames(a) /\ DistinctNames(b)
        /\ FieldSet(a) = FieldSet(b)
        /\ StartsWith(a.class_type, a.inferred)

ObjectPositions == { p \in Positions(root, <<>>) : p # <<>> /\ IsObject(NodeAt(root, p)) }

\* __eq__ without the test of the class names: the names, the numbers of
\* children and the children, sorted by name, are equal
SameStructure(a, b) ==
    /\ a.name = b.name
    /\ Len(a.children) = Len(b.children)
    /\ \A i \in DOMAIN a.children :
          NodeEq(SortedByName(a.children)[i], SortedByName(b.children)[i])

\* no third node was inferred to the class name of the nodes at p and q
InferredOnlyAt(p, q) ==
    \A r \in ObjectPositions :
        NodeAt(root, r).inferred = NodeAt(root, p).inferred => r \in {p, q}

\* C2 as the specification states it: two nodes inferred to one class name
\* that are not structurally equal end with different class names, neither is
\* a duplicate and both get a class declaration; a suffixed name carries the
\* number of entries registered before it and is flagged needs_adjustment.
\* The pairs are those of a class name only two nodes were inferred to, so
\* that neither node can be the duplicate of a third one.
C2_CollidingBothDeclared ==
    /\ Returned =>
          \A p, q \in ObjectPositions :
              LET a == NodeAt(root, p)
                  b == NodeAt(root, q)
              IN  (p # q /\ a.inferred = b.inferred /\ ~SameStructure(a, b)
                         /\ InferredOnlyAt(p, q))
                  => /\ a.class_type # b.class_type
                     /\ ~a.is_duplicate /\ ~b.is_duplicate
                     /\ (pc = "generated" => Declared(p) /\ Declared(q))
    /\ \A T \in DOMAIN existing_nodes :
          \A k \in DOMAIN existing_nodes[T] :
              existing_nodes[T][k].needs_adjustment
                  => EndsWith(existing_nodes[T][k].class_type, Decimal(k - 1))

\* the array fields of the tree
ListPositions == { p \in Positions(root, <<>>) : NodeAt(root, p).is_list }

\* list[<inner>]
ListOf(inner) == STR_list \o <<"[">> \o inner \o <<"]">>

\* the positions of the items of the array at p
ItemPositions(p) == { Append(p, i) : i \in DOMAIN NodeAt(root, p).children }

\* C3 as the specification states it: an empty array is 'list'; an array of
\* n >= 1 objects with the same keys and types is a list of one item class,
\* which is declared once; an object followed by a string is a list of
\* Union[ItemClass, str].
C3_ListUnification ==
    Returned =>
        \A p \in ListPositions :
            LET node  == NodeAt(root, p)
                items == node.children
            IN  /\ items = <<>> => ClassType(node) = STR_list
                /\ ( /\ items # <<>>
                     /\ \A i \in DOMAIN items :
                           IsObject(items[i]) /\ FieldSet(items[i]) = FieldSet(items[1]) )
                   => /\ ClassType(node) = ListOf(items[1].class_type)
                      /\ (pc = "generated" /\ Reached(p)
                            => DeclaredOf(ItemPositions(p)) = 1)
                /\ (Len(items) = 2 /\ IsObject(items[1]) /\ items[2].class_type = STR_str
                        /\ IsScalar(items[2]))
                   => ClassType(node) = ListOf(<<"U","n","i","o","n","[">>
                                               \o items[1].class_type \o <<",", " ">>
                                               \o STR_str \o <<"]">>)

\* the object nodes of the tree: the root, nested mappings, sections and the
\* object items of arrays
AllObjectPositions == { p \in Positions(root, <<>>) : p = <<>> \/ IsObject(NodeAt(root, p)) }

\* C9 as the specification states it: the children of an object node have
\* pairwise different names.
C9_SiblingNamesUnique ==
    Returned => \A p \in AllObjectPositions : DistinctNames(NodeAt(root, p))

-----------------------------------------------------------------------------
(* One process that parses one input after another (SpecHist): the calls   *)
(* of the loops of parse_dir and generate_class_code_from_dir.             *)
(* existing_nodes keeps the registry the parse before left behind; first   *)
(* remembers one earlier call, the number of calls that returned (calls)   *)
(* and how many of those after the remembered one had another input        *)
(* (others).                                                               *)

MaxCalls == 3    \* top-level parses of one process

HistObjs   == { Dict(<<KV(<<"x">>, Scalar(STR_int))>>), Dict(<<KV(<<"y">>, Scalar(STR_str))>>) }
HistDocs   == Mappings({ <<"a">>, <<"A">> }, HistObjs, MaxRoot)
HistIni    == Mappings({ <<"a">>, <<"A">> }, { Dict(<<KV(<<"x">>, Text(<<"1">>))>>) }, MaxRoot)
HistInputs ==
    { Call("json", RootName, d) : d \in HistDocs }
    \cup { Call("ini", RootName, d) : d \in HistIni }
    \cup { Call("json", <<"-">>, Dict(<<>>)) }

InitHist ==
    /\ pc = "ready"
    /\ input \in HistInputs
    /\ root = NoNode
    /\ err = NoExc
    /\ code = <<>>
    /\ existing_nodes = EmptyRegistry
    /\ first = NoCall
    /\ out = NoOut

\* the next iteration of the loop: the call before returned or raised, the
\* next input is parsed by the same process
NextFile ==
    /\ pc \in {"generated", "failed"}
    /\ first.calls + 2 <= MaxCalls
    /\ \E remember \in BOOLEAN :
          first' = IF remember
                   THEN [input |-> input, root |-> root, err |-> err, code |-> code,
                         calls |-> first.calls + 1, others |-> 0]
                   ELSE [first EXCEPT !.calls = @ + 1,
                                      !.others = @ + (IF first.input # input THEN 1 ELSE 0)]
    /\ input' \in HistInputs
    /\ pc' = "ready"
    /\ root' = NoNode
    /\ err' = NoExc
    /\ code' = <<>>
    /\ UNCHANGED <<existing_nodes, out>>

NextHist == Parse \/ ParseIni \/ GenerateAllClasses \/ NextFile

SpecHist == InitHist /\ [][NextHist]_vars

\* C4: the tree, the exception and the emitted text of a call are those of
\* every earlier call of the same process with the same input, whatever was
\* parsed before or in between.
C4_HistoryIndependent ==
    first.input = input =>
        /\ pc \in {"parsed", "generated", "failed"} => root = first.root /\ err = first.err
        /\ pc \in {"generated", "failed"} => code = first.code

\* C4 happens: an input with a duplicate in its tree was parsed and emitted
\* again after another input
C4_Witness ==
    /\ pc = "generated"
    /\ first.input = input
    /\ first.others >= 1
    /\ \E p \in Positions(root, <<>>) : NodeAt(root, p).is_duplicate

-----------------------------------------------------------------------------
(* Files.  A path is [name, kind, text, value, entries]:                   *)
(*   kind    "missing", "dir" or "file"                                    *)
(*   text    of a file: "empty" (zero bytes), "garbage" (not well-formed   *)
(*           for the adapter of its extension) or "doc" (well-formed)      *)
(*   value   of a "doc": the value its text denotes                        *)
(*   entries of a directory: its entries in the order iterdir yields them  *)

File(name, text, value) ==
    [name |-> name, kind |-> "file", text |-> text, value |-> value, entries |-> <<>>]
Dir(name, entries) ==
    [name |-> name, kind |-> "dir", text |-> "empty", value |-> Scalar(STR_NoneType),
     entries |-> entries]
Missing(name) ==
    [name |-> name, kind |-> "missing", text |-> "empty", value |-> Scalar(STR_NoneType),
     entries |-> <<>>]

STR_dot_ini  == <<".", "i", "n", "i">>
STR_dot_json == <<".", "j", "s", "o", "n">>
STR_dot_yaml == <<".", "y", "a", "m", "l">>
STR_dot_py   == <<".", "p", "y">>
STR_init_py  == <<"_", "_", "i", "n", "i", "t", "_", "_", ".", "p", "y">>

\* NodeParser._get_parser: the adapter of the path, "none" if there is none
get_parser(path) ==
    IF EndsWith(path.name, STR_dot_ini) THEN "ini"
    ELSE IF EndsWith(path.name, STR_dot_json) THEN "json"
    ELSE IF EndsWith(path.name, STR_dot_yaml) THEN "yaml"
    ELSE "none"

\* what an adapter's _load_file_content returns or raises: [err, data]
Loaded(data) == [err |-> NoErr, data |-> data]
LoadRaises(e) == [err |-> e, data |-> Scalar(STR_NoneType)]

\* JSONParser._load_file_content: json.load raises on an empty text
LoadJson(path) ==
    IF path.text = "doc" THEN Loaded(path.value) ELSE LoadRaises("JSONDecodeError")

\* YAMLParser._load_file_content: yaml.safe_load of an empty text is None
LoadYaml(path) ==
    IF path.text = "doc" THEN Loaded(path.value)
    ELSE IF path.text = "empty" THEN Loaded(Scalar(STR_NoneType))
    ELSE LoadRaises("YAMLError")

\* INIParser._load_file_content: a ConfigParser always holds the DEFAULT
\* section, and it comes first
LoadIni(path) ==
    IF path.text = "doc"
    THEN Loaded(Dict(<<KV(STR_DEFAULT, Dict(<<>>))>> \o path.value.items))
    ELSE IF path.text = "empty" THEN Loaded(Dict(<<KV(STR_DEFAULT, Dict(<<>>))>>))
    ELSE LoadRaises("MissingSectionHeaderError")

\* path.name.split(".")[0]
Stem(name) == Split(name, ".")[1]

\* A result of parse_file is [err, root]: root = NoNode with no exception
\* is the None of line 90.
Returns(node) == [err |-> NoExc, root |-> node]
Raises(type, cause, path) == [err |-> Exc(type, cause, path.name), root |-> NoNode]

\* NodeParser.parse_file(path)
parse_file(path) ==
    LET Built(result) ==
            IF result.err # NoErr THEN Raises("ParsingError", result.err, path)
            ELSE Returns(result.root)
        Parser(parser, loaded) ==
            IF loaded.err # NoErr THEN Raises("ParsingError", loaded.err, path)
            ELSE IF parser = "ini"
            THEN Built(parse_ini(Stem(path.name), loaded.data, EmptyRegistry))
            ELSE Built(parse(Stem(path.name), loaded.data, EmptyRegistry))
        Chosen(parser) ==
            IF parser = "none" THEN Returns(NoNode)
            ELSE Parser(parser, IF parser = "ini" THEN LoadIni(path)
                                ELSE IF parser = "json" THEN LoadJson(path)
                                ELSE LoadYaml(path))
    IN  IF path.kind = "missing" THEN Raises("FileNotFoundError", NoErr, path)
        ELSE IF path.kind = "dir" THEN Raises("IsADirectoryError", NoErr, path)
        ELSE Chosen(get_parser(path))

\* A written file: the directory and the name it is written to, the input
\* file it was generated from (<<>> for an __init__.py) and its text.
Write(dir, name, source, text) == [dir |-> dir, name |-> name, source |-> source, text |-> text]

\* the text "\n" of an __init__.py
InitText == <<Blank>>

\* A result of the entry points is [err, writes, dir_exists]: the exception
\* raised, the files written, and whether the output directory exists after
\* the call.
Wrote(writes) == [err |-> NoExc, writes |-> writes, dir_exists |-> TRUE]
Aborted(e, writes, dir_exists) == [err |-> e, writes |-> writes, dir_exists |-> dir_exists]

\* generate_class_code(input_file, output_file): output_file is name in the
\* directory dir (a path: the names from the top down); source is the path of
\* input_file
generate_class_code(input_file, dir, name, dir_exists, source) ==
    LET FromRoot(parsed) ==
            IF parsed.err # NoExc THEN Aborted(parsed.err, <<>>, dir_exists)
            ELSE IF parsed.root = NoNode THEN Aborted(NoExc, <<>>, dir_exists)
            ELSE Wrote((IF dir_exists THEN <<>> ELSE <<Write(dir, STR_init_py, <<>>, InitText)>>)
                       \o <<Write(dir, name, source, generate_all_classes(parsed.root))>>)
    IN  FromRoot(parse_file(input_file))


RECURSIVE LastDot(_, _)
\* name.rfind('.') + 1, looking at the first n characters
LastDot(name, n) ==
    IF n = 0 THEN 0 ELSE IF name[n] = "." THEN n ELSE LastDot(name, n - 1)

\* PurePath(name).with_suffix(suffix).name: the suffix is what follows the
\* last dot, if that dot is neither the first nor the last character
with_suffix(name, suffix) ==
    LET Replaced(dot) ==
            IF 1 < dot /\ dot < Len(name) THEN SubSeq(name, 1, dot - 1) \o suffix
            ELSE name \o suffix
    IN  Replaced(LastDot(name, Len(name)))

RECURSIVE generate_class_code_from_dir(_, _, _, _)
RECURSIVE DirLoop(_, _, _, _, _)

\* the loop at class_code_generator.py line 64, the output directory exists
DirLoop(entries, i, output_dir, source, writes) ==
    LET file == entries[i]
        Step(result) ==
            IF result.err # NoExc THEN Aborted(result.err, writes \o result.writes, TRUE)
            ELSE DirLoop(entries, i + 1, output_dir, source, writes \o result.writes)
    IN  IF i > Len(entries) THEN Wrote(writes)
        ELSE Step(IF file.kind = "dir"
                  THEN generate_class_code_from_dir(file, output_dir, "dir",
                                                    Append(source, file.name))
                  ELSE generate_class_code(file, output_dir,
                                           with_suffix(file.name, STR_dot_py), TRUE,
                                           Append(source, file.name)))

\* generate_class_code_from_dir(input_dir, output_dir): output_kind is what
\* is found at output_dir ("missing", "dir" or "file"), source the path of
\* input_dir
generate_class_code_from_dir(input_dir, output_dir, output_kind, source) ==
    IF input_dir.kind = "missing"
    THEN Aborted(Exc("FileNotFoundError", NoErr, input_dir.name), <<>>, output_kind = "dir")
    ELSE IF input_dir.kind # "dir"
    THEN Aborted(Exc("NotADirectoryError", NoErr, input_dir.name), <<>>, output_kind = "dir")
    ELSE IF output_kind = "file"
    THEN Aborted(Exc("NotADirectoryError", NoErr, output_dir[Len(output_dir)]), <<>>, FALSE)
    ELSE DirLoop(input_dir.entries, 1, output_dir, source,
                 IF output_kind = "missing"
                 THEN <<Write(output_dir, STR_init_py, <<>>, InitText)>> ELSE <<>>)

RECURSIVE parse_dir(_)
RECURSIVE ParseDirLoop(_, _, _)

\* A result of parse_dir is [err, nodes]; the None of parse_file is NoNode.
\* The loop at node_parser.py line 118.
ParseDirLoop(entries, i, nodes) ==
    LET file == entries[i]
        Sub(result) ==
            IF result.err # NoExc THEN result
            ELSE ParseDirLoop(entries, i + 1, nodes \o result.nodes)
        One(result) ==
            IF result.err # NoExc THEN [err |-> result.err, nodes |-> <<>>]
            ELSE ParseDirLoop(entries, i + 1, Append(nodes, result.root))
    IN  IF i > Len(entries) THEN [err |-> NoExc, nodes |-> nodes]
        ELSE IF file.kind = "dir" THEN Sub(parse_dir(file))
        ELSE One(parse_file(file))

\* NodeParser.parse_dir(path)
parse_dir(path) ==
    IF path.kind = "missing"
    THEN [err |-> Exc("FileNotFoundError", NoErr, path.name), nodes |-> <<>>]
    ELSE IF path.kind # "dir"
    THEN [err |-> Exc("NotADirectoryError", NoErr, path.name), nodes |-> <<>>]
    ELSE ParseDirLoop(path.entries, 1, <<>>)

-----------------------------------------------------------------------------
(* The entry points on one file (SpecFiles).                               *)

\* the keys that do not survive the normalizer or __post_init__ on the way
DashKey     == <<"-">>                           \* no field name: IndexError
DigitKey    == <<"-", "1">>                      \* class name '1': ValueError
DigitListKey == <<"-", "1", "l", "i", "s", "t">> \* class name '1list'

LeafObj == Dict(<<KV(<<"x">>, Scalar(STR_int))>>)

\* the documents of a .json or .yaml file
FileDocs ==
    { Dict(<<>>), LeafObj, List(<<Scalar(STR_int)>>),
      Dict(<<KV(DashKey, Scalar(STR_int))>>),
      Dict(<<KV(DigitKey, LeafObj)>>),
      Dict(<<KV(DigitKey, Scalar(STR_int))>>),
      Dict(<<KV(DigitListKey, LeafObj)>>),
      Dict(<<KV(<<"a">>, Dict(<<>>))>>) }

\* the documents of an .ini file: its sections
IniFileDocs ==
    { Dict(<<KV(<<"a">>, Dict(<<KV(<<"x">>, Text(<<"1">>))>>))>>),
      Dict(<<KV(<<"a">>, Dict(<<>>))>>),
      Dict(<<KV(DashKey, Dict(<<>>))>>),
      Dict(<<KV(DigitKey, Dict(<<>>))>>) }

FileContents(docs) ==
    { [text |-> "empty", value |-> Scalar(STR_NoneType)],
      [text |-> "garbage", value |-> Scalar(STR_NoneType)] }
    \cup { [text |-> "doc", value |-> d] : d \in docs }

FileNames ==
    { <<"r">> \o STR_dot_json, <<"r">> \o STR_dot_yaml, <<"r">> \o STR_dot_ini,
      <<"r", ".", "t", "x", "t">>, <<"r">>, STR_dot_json }

DocsOf(name) == IF EndsWith(name, STR_dot_ini) THEN IniFileDocs ELSE FileDocs

Paths ==
    { File(n, c.text, c.value) : n \in FileNames, c \in FileContents(FileDocs \cup IniFileDocs) }
    \cup { Dir(n, <<>>) : n \in FileNames }
    \cup { Missing(n) : n \in FileNames }

OutDir == << <<"o", "u", "t">> >>

FileCalls ==
    { [fn |-> "parse_file", path |-> p, dir_exists |-> TRUE] :
        p \in { q \in Paths : q.kind # "file" \/ q.value \in DocsOf(q.name) \/ q.text # "doc" } }
    \cup { [fn |-> "generate_class_code", path |-> p, dir_exists |-> e] :
             p \in { q \in Paths : q.kind # "file" \/ q.value \in DocsOf(q.name) \/ q.text # "doc" },
             e \in BOOLEAN }

InitFiles ==
    /\ pc = "ready"
    /\ input \in FileCalls
    /\ root = NoNode
    /\ err = NoExc
    /\ code = <<>>
    /\ existing_nodes = EmptyRegistry
    /\ first = NoCall
    /\ out = NoOut

\* NodeParser.parse_file(input.path)
ParseFile ==
    /\ pc = "ready"
    /\ input.fn = "parse_file"
    /\ \E result \in {parse_file(input.path)} :
          /\ root' = result.root
          /\ err' = result.err
          /\ pc' = IF result.err = NoExc THEN "returned" ELSE "raised"
    /\ UNCHANGED <<input, code, existing_nodes, first, out>>

\* generate_class_code(input.path, out/<name>.py)
GenerateClassCode ==
    /\ pc = "ready"
    /\ input.fn = "generate_class_code"
    /\ \E result \in {generate_class_code(input.path, OutDir,
                                          with_suffix(input.path.name, STR_dot_py),
                                          input.dir_exists, <<input.path.name>>)} :
          /\ out' = result.writes
          /\ err' = result.err
          /\ pc' = IF result.err = NoExc THEN "returned" ELSE "raised"
    /\ UNCHANGED <<input, root, code, existing_nodes, first>>

NextFiles == ParseFile \/ GenerateClassCode

SpecFiles == InitFiles /\ [][NextFiles]_vars


\* the call of SpecFiles returned or raised
Finished == pc \in {"returned", "raised"}

\* a file one of the three adapters is chosen for
Supported(path) == path.kind = "file" /\ get_parser(path) # "none"

\* the emitted text declares the class and the class has no field
DeclaresEmptyClass(text, class_type) ==
    /\ \E k \in DOMAIN text : text[k].kind = "class" /\ text[k].a = class_type
    /\ \A k \in DOMAIN text : text[k].kind # "field"

\* the sanitized field name of the key is empty or no identifier
BadFieldName(key) ==
    FieldNameRaises(key) \/ ~IsIdentifier(get_valid_field_name(key))

\* the sanitized class name of the key is empty or no identifier
BadClassName(key) == ~IsIdentifier(get_valid_class_name(key))

\* C5 as the specification states it: a zero-byte file and a file holding an
\* empty mapping are no failure; the root has no children, and the emitted
\* text declares the root class, which the two accessor functions name.
\* The files are those whose name gives a usable root name.
C5_EmptyInput ==
    (Finished /\ Supported(input.path)
         /\ ~BadFieldName(Stem(input.path.name)) /\ ~BadClassName(Stem(input.path.name))
         /\ (input.path.text = "empty"
               \/ (input.path.text = "doc" /\ input.path.value = Dict(<<>>))))
    => /\ err = NoExc
       /\ input.fn = "parse_file" => root # NoNode /\ root.children = <<>>
       /\ input.fn = "generate_class_code"
            => \E k \in DOMAIN out :
                  /\ out[k].source = <<input.path.name>>
                  /\ DeclaresEmptyClass(out[k].text,
                                        get_valid_class_name(Stem(input.path.name)))

\* C8 as the specification states it: on an existing file of an unsupported
\* extension parse_file returns None and does not raise, generate_class_code
\* ends in a failure.
C8_UnsupportedFormat ==
    (Finished /\ input.path.kind = "file" /\ get_parser(input.path) = "none")
    => /\ input.fn = "parse_file" => err = NoExc /\ root = NoNode
       /\ input.fn = "generate_class_code" => err # NoExc

RECURSIVE HasBadKey(_)
\* a key of the value, at any depth, has a bad field name or, when it holds
\* a mapping, a bad class name
HasBadKey(value) ==
    IF value.k = "dict"
    THEN \E i \in DOMAIN value.items :
            LET item == value.items[i]
            IN  \/ item.key # STR_DEFAULT /\ BadFieldName(item.key)
                \/ item.key # STR_DEFAULT /\ item.val.k = "dict" /\ BadClassName(item.key)
                \/ HasBadKey(item.val)
    ELSE IF value.k = "list"
    THEN \E i \in DOMAIN value.items : HasBadKey(value.items[i])
    ELSE FALSE

\* the adapter cannot decode the text of the file
DecodeFails(path) ==
    \/ path.text = "garbage"
    \/ path.text = "empty" /\ get_parser(path) = "json"

\* C10 as the specification states it: a decode error and a key with an
\* empty or invalid sanitized name abort parse_file: no tree, a ParsingError
\* with the path and the original failure as its cause; a missing path is a
\* not-found error, a directory a wrong-path-kind error.
C10_ParseFailureReported ==
    (Finished /\ input.fn = "parse_file")
    => /\ input.path.kind = "missing" => err.type = "FileNotFoundError" /\ root = NoNode
       /\ input.path.kind = "dir" => err.type = "IsADirectoryError" /\ root = NoNode
       /\ ( /\ Supported(input.path)
            /\ \/ DecodeFails(input.path)
               \/ input.path.text = "doc" /\ HasBadKey(input.path.value) )
          => /\ root = NoNode
             /\ err.type = "ParsingError"
             /\ err.path = input.path.name
             /\ err.cause # NoErr

-----------------------------------------------------------------------------
(* The entry points on a directory tree (SpecDir).  The order of the       *)
(* entries of a directory is the order iterdir yields them in: any order.  *)

MaxEntries == 2    \* entries of one directory

NameX == <<"x">>
NameY == <<"y">>

\* well-formed and broken files of the three kinds, and a text file
DirFiles ==
    { File(n \o e, c.text, c.value) :
        n \in {NameX}, e \in {STR_dot_json, STR_dot_yaml},
        c \in FileContents({LeafObj}) \ { [text |-> "empty", value |-> Scalar(STR_NoneType)] } }
    \cup { File(NameY \o STR_dot_json, "doc", LeafObj),
           File(NameY \o STR_dot_json, "garbage", Scalar(STR_NoneType)),
           File(<<"n", ".", "t", "x", "t">>, "garbage", Scalar(STR_NoneType)) }

\* the sequences of at most n entries with pairwise different names
Listings(entries, n) ==
    { s \in SeqsUpTo(entries, n) : IsInjective([i \in DOMAIN s |-> s[i].name]) }

SubDirs == { Dir(<<"s">>, s) : s \in Listings(DirFiles, MaxEntries) }

InputDirs == { Dir(<<"i", "n">>, s) : s \in Listings(DirFiles \cup SubDirs, MaxEntries) }

DirCalls ==
    { [fn |-> "parse_dir", path |-> p, output_kind |-> "dir"] :
        p \in InputDirs \cup { Missing(<<"i", "n">>), File(<<"i", "n">>, "empty", Scalar(STR_NoneType)) } }
    \cup { [fn |-> "generate_class_code_from_dir", path |-> p, output_kind |-> k] :
             p \in InputDirs \cup { Missing(<<"i", "n">>),
                                    File(<<"i", "n">>, "empty", Scalar(STR_NoneType)) },
             k \in {"missing", "dir", "file"} }

InitDir ==
    /\ pc = "ready"
    /\ input \in DirCalls
    /\ root = <<>>
    /\ err = NoExc
    /\ code = <<>>
    /\ existing_nodes = EmptyRegistry
    /\ first = NoCall
    /\ out = NoOut

\* NodeParser.parse_dir(input.path)
ParseDir ==
    /\ pc = "ready"
    /\ input.fn = "parse_dir"
    /\ \E result \in {parse_dir(input.path)} :
          /\ root' = result.nodes
          /\ err' = result.err
          /\ pc' = IF result.err = NoExc THEN "returned" ELSE "raised"
    /\ UNCHANGED <<input, code, existing_nodes, first, out>>

\* generate_class_code_from_dir(input.path, out)
GenerateClassCodeFromDir ==
    /\ pc = "ready"
    /\ input.fn = "generate_class_code_from_dir"
    /\ \E result \in {generate_class_code_from_dir(input.path, OutDir, input.output_kind,
                                                   <<input.path.name>>)} :
          /\ out' = result.writes
          /\ err' = result.err
          /\ pc' = IF result.err = NoExc THEN "returned" ELSE "raised"
    /\ UNCHANGED <<input, root, code, existing_nodes, first>>

NextDir == ParseDir \/ GenerateClassCodeFromDir

SpecDir == InitDir /\ [][NextDir]_vars

RECURSIVE FilesOf(_, _)
\* the files of a directory tree, each with its path
FilesOf(dir, source) ==
    UNION { IF dir.entries[i].kind = "dir"
            THEN FilesOf(dir.entries[i], Append(source, dir.entries[i].name))
            ELSE { [path |-> Append(source, dir.entries[i].name), file |-> dir.entries[i]] }
            : i \in DOMAIN dir.entries }

\* the pipeline of the file alone yields a tree
PipelineSucceeds(file) == parse_file(file).err = NoExc /\ parse_file(file).root # NoNode

\* C6 as the specification states it: a failing file does not stop the run
\* on a directory; every file whose own pipeline succeeds gets its result.
C6_BatchIsolation ==
    (Finished /\ input.path.kind = "dir" /\ input.output_kind # "file")
    => \A f \in FilesOf(input.path, <<input.path.name>>) :
          PipelineSucceeds(f.file)
          => /\ input.fn = "generate_class_code_from_dir"
                  => \E k \in DOMAIN out : out[k].source = f.path
             /\ input.fn = "parse_dir"
                  => \E k \in DOMAIN root : root[k] = parse_file(f.file).root

\* C7 as the specification states it: two input files are never written to
\* one output path, and the output tree mirrors the input tree: a file is
\* written below the output directory where it lies below the input one.
C7_OutputPathsInjective ==
    (Finished /\ input.fn = "generate_class_code_from_dir")
    => /\ \A i, j \in DOMAIN out :
             (out[i].dir = out[j].dir /\ out[i].name = out[j].name)
             => out[i].source = out[j].source
       /\ \A i \in DOMAIN out :
             out[i].source # <<>>
             => out[i].dir = OutDir \o SubSeq(out[i].source, 2, Len(out[i].source) - 1)

-----------------------------------------------------------------------------
(* The identifier normalizer on raw keys (SpecNames).                      *)

MaxKey == 3    \* characters of a raw key

KeyChars == { "a", "b", "B", "U", "1", "_", "-", "Ä" }

HTTP_PORT == <<"H","T","T","P","_","P","O","R","T">>
MyURL     == <<"m","y","U","R","L">>
AeDash1   == <<"Ä","-","1">>

RawKeys == SeqsUpTo(KeyChars, MaxKey) \cup { HTTP_PORT, MyURL, AeDash1 }

InitNames ==
    /\ pc = "ready"
    /\ input \in RawKeys
    /\ root = NoNode
    /\ err = NoExc
    /\ code = <<>>
    /\ existing_nodes = EmptyRegistry
    /\ first = NoCall
    /\ out = NoOut

\* NodeParser.get_valid_class_name(input)
GetValidClassName ==
    /\ pc = "ready"
    /\ code' = get_valid_class_name(input)
    /\ pc' = "class_name"
    /\ UNCHANGED <<input, root, err, existing_nodes, first, out>>

\* NodeParser.get_valid_field_name(input)
GetValidFieldName ==
    /\ pc = "ready"
    /\ IF FieldNameRaises(input)
       THEN /\ err' = Exc("IndexError", NoErr, <<>>)
            /\ pc' = "failed"
            /\ code' = code
       ELSE /\ code' = get_valid_field_name(input)
            /\ pc' = "field_name"
            /\ err' = err
    /\ UNCHANGED <<input, root, existing_nodes, first, out>>

NextNames == GetValidClassName \/ GetValidFieldName

SpecNames == InitNames /\ [][NextNames]_vars

\* C11: for every raw key get_valid_class_name returns a non-empty
\* identifier that begins with a capital letter and not with a digit, the
\* key -1 gets the Model prefix, and HTTP_PORT gives HttpPort.
C11_ClassNameValid ==
    pc = "class_name" =>
        /\ code # <<>>
        /\ IsIdentifier(code)
        /\ code # <<>> => (~IsDigitC(code[1]) /\ IsUpperC(code[1]))
        /\ input = <<"-", "1">> => code = <<"M","o","d","e","l","1">>
        /\ input = HTTP_PORT => code = <<"H","t","t","p","P","o","r","t">>

\* a token of unaccented letters
IsLetters(s) == \A i \in DOMAIN s : s[i] \in LowerSet \cup UpperSet

RECURSIVE SnakeAtTransitions(_, _)
\* s with an underscore in front of every capital that follows a lower-case
\* letter
SnakeAtTransitions(s, i) ==
    IF i > Len(s) THEN <<>>
    ELSE (IF i > 1 /\ IsLowerC(s[i - 1]) /\ IsUpperC(s[i]) THEN <<"_", s[i]>> ELSE <<s[i]>>)
         \o SnakeAtTransitions(s, i + 1)

\* C12: get_valid_field_name returns a lower-case result; a token of letters
\* gets an underscore at every lowercase-to-uppercase transition and nowhere
\* else (myURL gives my_url), an all-uppercase token is lower-cased, a result
\* that would begin with a digit is prefixed with field_, and the key of
\* a-umlaut, dash, 1 gives ae_1.
C12_FieldNameSnake ==
    pc = "field_name" =>
        /\ code = Lower(code)
        /\ (IsLetters(input) /\ input # <<>>) => code = Lower(SnakeAtTransitions(input, 1))
        /\ input = MyURL => code = <<"m","y","_","u","r","l">>
        /\ IsDigitC(FieldNameBody(input)[1]) => StartsWith(code, <<"f","i","e","l","d","_">>)
        /\ input = AeDash1 => code = <<"a","e","_","1">>

-----------------------------------------------------------------------------
(* Properties of the registry after a parse (Spec).                        *)

\* the node at p was handed to _check_and_adjust_class_type before the node
\* at q: p lies in a branch to the left of q
Before(p, q) ==
    \E i \in 1..Len(p) :
        /\ i <= Len(q)
        /\ p[i] < q[i]
        /\ \A k \in 1..(i - 1) : p[k] = q[k]

\* C13: a candidate with the field name and the children of an entry stored
\* earlier under its inferred name, renamed or not, is marked is_duplicate,
\* has the class_type of such an entry, and is not appended to the registry.
C13_MatchesRenamedEntry ==
    Returned =>
        /\ \A p, q \in ObjectPositions :
              LET a == NodeAt(root, p)
                  b == NodeAt(root, q)
              IN  (Before(p, q) /\ a.inferred = b.inferred /\ ~a.is_duplicate
                        /\ SameStructure(b, a))
                  => /\ b.is_duplicate
                     /\ \E k \in DOMAIN existing_nodes[b.inferred] :
                           /\ SameStructure(b, existing_nodes[b.inferred][k])
                           /\ b.class_type = existing_nodes[b.inferred][k].class_type
        /\ \A T \in DOMAIN existing_nodes :
              \A k \in DOMAIN existing_nodes[T] : ~existing_nodes[T][k].is_duplicate


\* the position of the parent of the node at p
Front(p) == SubSeq(p, 1, Len(p) - 1)

\* the node at p is the one at q or encloses it
Encloses(p, q) == Len(p) <= Len(q) /\ SubSeq(q, 1, Len(p)) = p

\* C14: a registration made inside a nested mapping is not visible after the
\* recursion into that mapping returned: when the node at p lies in a nested
\* mapping that does not enclose the node at q, and only these two were
\* inferred to their class name, neither is renamed or marked is_duplicate.
C14_ScopedRegistry ==
    Returned =>
        \A p, q \in ObjectPositions :
            LET a == NodeAt(root, p)
                b == NodeAt(root, q)
            IN  (/\ Before(p, q) /\ a.inferred = b.inferred /\ InferredOnlyAt(p, q)
                 /\ Len(p) >= 2 /\ IsObject(NodeAt(root, Front(p)))
                 /\ ~Encloses(Front(p), q))
                => /\ ~a.is_duplicate /\ ~b.is_duplicate
                   /\ a.class_type = a.inferred
                   /\ b.class_type = b.inferred


\* the lines of the emitted text that declare a class
ClassLines == { k \in DOMAIN code : code[k].kind = "class" }

\* C15: in the text emitted for one input no two class declarations have the
\* same class name.
C15_ClassNamesUnique ==
    pc = "generated" =>
        \A i, j \in ClassLines : i # j => code[i].a # code[j].a


RECURSIVE TypeRefs(_)
\* the class names the type of a field is made of: its class_type, or for an
\* array the class names of its items (ListNode.class_type, node.py 121-126),
\* without the built-in types
TypeRefs(node) ==
    IF node.is_list
    THEN UNION { TypeRefs(node.children[i]) : i \in DOMAIN node.children }
    ELSE {node.class_type} \ BasicTypes

\* C16: every class name that is the type of a field of an emitted class
\* declaration, or an element of its list or Union type, is declared in the
\* emitted text.
C16_NoDanglingReference ==
    pc = "generated" =>
        \A p \in Positions(root, <<>>) :
            Declared(p) =>
                \A i \in DOMAIN NodeAt(root, p).children :
                    TypeRefs(NodeAt(root, p).children[i])
                        \subseteq { code[k].a : k \in ClassLines }


-----------------------------------------------------------------------------
(* Properties of the emitted text (Spec).                                  *)

RECURSIVE PreOrder(_, _)
RECURSIVE PreOrderFrom(_, _, _)
\* the positions of a tree, a node before its children, the children from
\* the first to the last
PreOrder(node, path) == <<path>> \o PreOrderFrom(node, path, 1)

PreOrderFrom(node, path, i) ==
    IF i > Len(node.children) THEN <<>>
    ELSE PreOrder(node.children[i], Append(path, i)) \o PreOrderFrom(node, path, i + 1)

\* the node at the position is an object with a child, and neither it nor a
\* node above it is a duplicate
Emittable(path) ==
    /\ ~NodeAt(root, path).is_list
    /\ NodeAt(root, path).children # <<>>
    /\ Reached(path)

\* a class declaration: the class name and the (name, type) of its fields
Block(class_type, fields) == [class_type |-> class_type, fields |-> fields]

\* the declaration the emitter owes the node: one field per child, in the
\* order of the children
BlockOf(node) ==
    Block(node.class_type,
          [i \in DOMAIN node.children |-> <<node.children[i].name, ClassType(node.children[i])>>])

RECURSIVE BlocksFrom(_, _, _)
\* the class declarations of a text, in the order of the text
BlocksFrom(text, k, blocks) ==
    IF k > Len(text) THEN blocks
    ELSE IF text[k].kind = "class"
    THEN BlocksFrom(text, k + 1, Append(blocks, Block(text[k].a, <<>>)))
    ELSE IF text[k].kind = "field" /\ blocks # <<>>
    THEN BlocksFrom(text, k + 1,
                    [blocks EXCEPT ![Len(blocks)].fields = Append(@, <<text[k].a, text[k].b>>)])
    ELSE BlocksFrom(text, k + 1, blocks)

\* C17: the class declarations of the emitted text are, in this order, those
\* of the object nodes met in a depth-first pre-order walk of the tree that
\* have a child and are neither a duplicate nor below one, one declaration
\* each, and each declaration lists one field per child in the order of the
\* children; list nodes declare nothing and their items are visited.
C17_EmissionTraversal ==
    pc = "generated" =>
        LET emitted == SelectSeq(PreOrder(root, <<>>), Emittable)
        IN  BlocksFrom(code, 1, <<>>)
                = [k \in DOMAIN emitted |-> BlockOf(NodeAt(root, emitted[k]))]

\* C17 witness: a text with the declarations of a parent and, after it, of
\* an item object of one of its arrays, while a duplicate that has fields is
\* left out
C17_Witness ==
    /\ pc = "generated"
    /\ \E p, q \in Positions(root, <<>>) :
          /\ NodeAt(root, p).is_list
          /\ Encloses(p, q) /\ p # q
          /\ Emittable(q)
    /\ \E p \in Positions(root, <<>>) :
          NodeAt(root, p).is_duplicate /\ NodeAt(root, p).children # <<>>
    /\ Len(BlocksFrom(code, 1, <<>>)) >= 2


-----------------------------------------------------------------------------
(* Node.__eq__ on two nodes (SpecEq).                                      *)

MaxEqChildren == 2    \* children of a compared node

\* list.sort(): the list itself is put in the order of the names
SortedInPlace(children) == SortedByName(children)

\* what __eq__ leaves in node.children: sorted() at node.py lines 67-68
\* builds a new list, the list of the node is not touched
ChildrenAfterEq(children) == children

EqLeaves ==
    { Node(<<"x">>, STR_int, <<>>, None), Node(<<"x">>, STR_str, <<>>, None),
      Node(<<"y">>, STR_int, <<>>, None) }

\* nested objects with their fields in both orders, and arrays of at most
\* one item (the items of an array all have one name)
EqNested ==
    { Node(<<"c">>, <<"C">>, kids, None) :
        kids \in { <<>>,
                   <<Node(<<"x">>, STR_int, <<>>, None)>>,
                   <<Node(<<"x">>, STR_int, <<>>, None), Node(<<"y">>, STR_int, <<>>, None)>>,
                   <<Node(<<"y">>, STR_int, <<>>, None), Node(<<"x">>, STR_int, <<>>, None)>> } }
    \cup { ListNode(<<"l">>, items, None) :
             items \in { <<>>, <<Node(<<"l","_","i","t","e","m">>, STR_int, <<>>, None)>> } }

\* lists of children with pairwise different names
EqChildren ==
    { s \in SeqsUpTo(EqLeaves \cup EqNested, MaxEqChildren) : DistinctNames([children |-> s]) }

EqPairs ==
    { [self |-> Node(<<"a">>, <<"A">>, s, None), other |-> Node(<<"a">>, t, o, None)] :
        s \in EqChildren, o \in EqChildren, t \in { <<"A">>, <<"A", "1">> } }

InitEq ==
    /\ pc = "ready"
    /\ input \in EqPairs
    /\ root = NoNode
    /\ err = NoExc
    /\ code = <<>>
    /\ existing_nodes = EmptyRegistry
    /\ first = NoCall
    /\ out = NoOut

\* self == other: the result, and the two nodes as the call leaves them
Eq ==
    /\ pc = "ready"
    /\ root' = [ result |-> NodeEq(input.self, input.other),
                 self   |-> [input.self EXCEPT !.children = ChildrenAfterEq(@)],
                 other  |-> [input.other EXCEPT !.children = ChildrenAfterEq(@)] ]
    /\ pc' = "compared"
    /\ UNCHANGED <<input, err, code, existing_nodes, first, out>>

NextEq == Eq

SpecEq == InitEq /\ [][NextEq]_vars

\* the orders the entries of a list can be put in
Perms(s) ==
    { [i \in DOMAIN s |-> s[f[i]]] :
        f \in { g \in [DOMAIN s -> DOMAIN s] : \A i, j \in DOMAIN s : i # j => g[i] # g[j] } }

\* C18: for two nodes whose children have pairwise different names at every
\* level, the comparison gives the same result for every order of the
\* children of either node, and it leaves both nodes as they were, the order
\* of their children included.
C18_EqOrderIndependent ==
    pc = "compared" =>
        /\ \A s \in Perms(input.self.children), o \in Perms(input.other.children) :
              NodeEq([input.self EXCEPT !.children = s],
                     [input.other EXCEPT !.children = o]) = root.result
        /\ root.self = input.self
        /\ root.other = input.other

\* C18 witness: two nodes that are equal although their children, two each,
\* are in different orders
C18_Witness ==
    /\ pc = "compared"
    /\ root.result
    /\ Len(input.self.children) = 2
    /\ input.self.children # input.other.children
    /\ input.self.children # SortedByName(input.self.children)

=============================================================================
